---- MODULE Spec2Model ----
(***************************************************************************)
(* Model of app.py: the snapshot fetcher fetch_crypto_data (run by the     *)
(* background scheduler every 30 s and by the /data route), the CSV        *)
(* history store it appends to, the module-level cache last_snapshot, and  *)
(* the read-only views /chart/<symbol> and /pptx.                          *)
(*                                                                         *)
(* The file CSV_FILE is a sequence of lines.  A write through a handle     *)
(* opened in mode 'w' replaces the lines from offset 0 on; a write through *)
(* a handle opened in mode 'a' lands at the end of the file.               *)
(***************************************************************************)
EXTENDS Integers, Sequences, FiniteSets, TLC

\* ------------------------------------------------------------------ bounds

\* capture calls (scheduler jobs plus /data requests) started in one run
MaxCaptures == 2
\* the wall clock runs from ClockStart to MaxClock (seconds)
ClockStart == 9
MaxClock == 10
\* assets in one upstream response
MaxBatch == 2
\* rows of the stores the views are checked on
MaxRows == 12
\* price points in one market-chart response
MaxPoints == 2

\* ------------------------------------------------------------- text values

\* A string is the sequence of its character codes.
IsLower(c) == c >= 97 /\ c <= 122

\* str.upper() on the characters the model uses
Upper(s) == [i \in 1..Len(s) |-> IF IsLower(s[i]) THEN s[i] - 32 ELSE s[i]]

\* lexicographic order on strings, as Python and pandas compare str
RECURSIVE StrLess(_, _)
StrLess(a, b) ==
    IF b = <<>> THEN FALSE
    ELSE IF a = <<>> THEN TRUE
    ELSE IF a[1] # b[1] THEN a[1] < b[1]
    ELSE StrLess(Tail(a), Tail(b))

StrLeq(a, b) == a = b \/ StrLess(a, b)

\* a format without zero padding
Strftime_Unpadded(t) == IF t < 10 THEN <<48 + t>> ELSE <<48 + (t \div 10), 48 + (t % 10)>>

\* datetime.now().strftime("%Y-%m-%d %H:%M:%S"): fixed-width, zero-padded
\* decimal fields; the model keeps one two-digit field (digits as 48..57).
Strftime(t) == <<48 + ((t \div 10) % 10), 48 + (t % 10)>>

\* read_csv(parse_dates=["time"]): the instant a formatted time denotes
RECURSIVE ParseTime(_)
ParseTime(s) ==
    IF s = <<>> THEN 0
    ELSE ParseTime(SubSeq(s, 1, Len(s) - 1)) * 10 + (s[Len(s)] - 48)

sym_btc == <<98, 116, 99>>
sym_eth == <<101, 116, 104>>
sym_Btc == <<66, 116, 99>>
sym_BTC == <<66, 84, 67>>
sym_xrp == <<120, 114, 112>>

\* -------------------------------------------------------------- upstream

\* An optional JSON field is <<>> when the key is missing or null, <<v>> else.
Coin(name, symbol, price, change, volume) ==
    [name |-> name, symbol |-> symbol, current_price |-> price,
     price_change_percentage_24h |-> change, total_volume |-> volume]

Coins ==
    { Coin("Bitcoin", sym_btc, <<2>>, <<3>>, <<5>>),
      Coin("Ethereum", sym_eth, <<>>, <<>>, <<>>) }

RECURSIVE SeqsUpTo(_, _)
SeqsUpTo(S, n) ==
    IF n = 0 THEN {<<>>}
    ELSE LET shorter == SeqsUpTo(S, n - 1)
         IN  shorter \cup {Append(s, x) : s \in shorter, x \in S}

DistinctSymbols(l) ==
    \A i, j \in 1..Len(l) : i # j => l[i].symbol # l[j].symbol

\* the markets listing: at most MaxBatch assets, one object per asset
CoinLists == {l \in SeqsUpTo(Coins, MaxBatch) : DistinctSymbols(l)}

\* What requests.get / raise_for_status / response.json() can produce:
\* an exception inside the try block, or a decoded JSON value, which is the
\* expected array of asset objects or a value of another shape (an error
\* object, null, an array holding a non-object).
UpstreamErrors == {"timeout", "connection_error", "http_error", "not_json"}

Upstream ==
    {[outcome |-> e, shape |-> "none", items |-> <<>>] : e \in UpstreamErrors}
    \cup {[outcome |-> "json", shape |-> "other", items |-> <<>>]}
    \cup {[outcome |-> "json", shape |-> "list", items |-> l] : l \in CoinLists}

NoData == [outcome |-> "none", shape |-> "none", items |-> <<>>]

\* ------------------------------------------------------------- the rows

OrElse(opt, default) == IF opt = <<>> THEN default ELSE opt[1]

\* one dict of the loop at lines 46-54
\* a row that keeps the symbol as upstream gave it
MakeRow_AsGiven(coin, now) ==
    [time |-> now,
     name |-> coin.name,
     symbol |-> coin.symbol,
     price |-> OrElse(coin.current_price, 0),
     change |-> OrElse(coin.price_change_percentage_24h, 0),
     volume |-> OrElse(coin.total_volume, 0)]

\* lines 47-54: one SnapshotRow of an asset object
MakeRow(coin, now) ==
    [time |-> now,
     name |-> coin.name,
     symbol |-> Upper(coin.symbol),
     price |-> OrElse(coin.current_price, 0),
     change |-> OrElse(coin.price_change_percentage_24h, 0),
     volume |-> OrElse(coin.total_volume, 0)]

BuildRows(items, now) == [i \in 1..Len(items) |-> MakeRow(items[i], now)]

\* ------------------------------------------------------------- the file

HeaderLine == [kind |-> "header", row |-> <<>>]
BlankLine == [kind |-> "blank", row |-> <<>>]
RowLine(r) == [kind |-> "row", row |-> <<r>>]

RowLines(rows) == [i \in 1..Len(rows) |-> RowLine(rows[i])]

\* DataFrame(rows).to_csv(..., index=False): the header line is the frame's
\* column names, and a frame built from an empty list has no columns, so its
\* header line is empty.
ToCsv(rows, header) ==
    (IF header
     THEN (IF rows = <<>> THEN <<BlankLine>> ELSE <<HeaderLine>>)
     ELSE <<>>)
    \o RowLines(rows)

NoFile == [exists |-> FALSE, lines |-> <<>>]
FileOf(lines) == [exists |-> TRUE, lines |-> lines]

\* open(CSV_FILE, 'w'): creates the file or truncates it to nothing
OpenW(f) == FileOf(<<>>)

\* write through a 'w' handle, whose offset is 0 after the open
WriteW(f, text) ==
    FileOf(text \o SubSeq(f.lines, Len(text) + 1, Len(f.lines)))

\* the append written as if the handle had been opened in mode 'w'
WriteA_Truncating(f, text) == FileOf(text)

\* write through an 'a' handle: always at the end of the file
WriteA(f, text) == FileOf(f.lines \o text)

RECURSIVE RowsOfLines(_)
RowsOfLines(lines) ==
    IF lines = <<>> THEN <<>>
    ELSE (IF lines[1].kind = "row" THEN lines[1].row ELSE <<>>)
         \o RowsOfLines(Tail(lines))

\* the SnapshotRows the file holds, in file order
StoreRows(f) == RowsOfLines(f.lines)

\* ------------------------------------------------------------- the state

\* the scheduler's job thread and a Flask request thread
Procs == {"timer", "web"}

VARIABLES
    clock,          \* the wall clock, in seconds
    csv_file,       \* CSV_FILE on disk
    last_snapshot,  \* the module-level cache
    pc,             \* where each thread is
    data,           \* fetch_crypto_data's local `data`, per thread
    rows,           \* fetch_crypto_data's local `rows`, per thread
    now,            \* the clock reading behind fetch_crypto_data's `now`, per thread
    ret,            \* what a thread's call returned or raised
    store0,         \* history: the rows the file held when the process started
    batches,        \* history: the batches written to the file, in write order
    stamps,         \* history: the clock reading of each of those batches
    lastGood,       \* history: the batch of the last capture that succeeded
    ncalls          \* capture calls started

vars == <<clock, csv_file, last_snapshot, pc, data, rows, now, ret, store0,
          batches, stamps, lastGood, ncalls>>

NoRet == [kind |-> "none"]

\* A file left by an earlier run of the program: one capture of one asset.
PriorRow == MakeRow(Coin("Bitcoin", sym_btc, <<1>>, <<>>, <<5>>), Strftime(ClockStart))
InitialFiles == {NoFile, FileOf(ToCsv(<<PriorRow>>, TRUE))}

Init ==
    /\ clock = ClockStart
    /\ csv_file \in InitialFiles
    /\ last_snapshot = <<>>
    /\ pc = [p \in Procs |-> "idle"]
    /\ data = [p \in Procs |-> NoData]
    /\ rows = [p \in Procs |-> <<>>]
    /\ now = [p \in Procs |-> 0]
    /\ ret = [p \in Procs |-> NoRet]
    /\ store0 = StoreRows(csv_file)
    /\ batches = <<>>
    /\ stamps = <<>>
    /\ lastGood = <<>>
    /\ ncalls = 0

\* ------------------------------------------------- fetch_crypto_data

\* a fallback that forgets the cache
FallbackResult_Empty == <<>>

\* line 41: return last_snapshot
FallbackResult == last_snapshot

\* lines 27-41: the request; an exception in the try block returns the cache
Fetch(p) ==
    /\ pc[p] = "idle"
    /\ ncalls < MaxCaptures
    /\ ncalls' = ncalls + 1
    /\ \E u \in Upstream :
        IF u.outcome # "json"
        THEN /\ ret' = [ret EXCEPT ![p] =
                    [kind |-> "capture", fallback |-> TRUE, value |-> FallbackResult]]
             /\ pc' = [pc EXCEPT ![p] = "done"]
             /\ data' = data
        ELSE /\ data' = [data EXCEPT ![p] = u]
             /\ pc' = [pc EXCEPT ![p] = "build"]
             /\ ret' = ret
    /\ UNCHANGED <<clock, csv_file, last_snapshot, rows, now, store0, batches,
                   stamps, lastGood>>

\* lines 43-54: sample the clock once, one row per asset; iterating a JSON
\* value that is not an array of objects raises outside the try block
Build(p) ==
    /\ pc[p] = "build"
    /\ data' = [data EXCEPT ![p] = NoData]
    /\ now' = [now EXCEPT ![p] = clock]
    /\ IF data[p].shape = "list"
       THEN /\ rows' = [rows EXCEPT ![p] = BuildRows(data[p].items, Strftime(clock))]
            /\ pc' = [pc EXCEPT ![p] = "cache"]
            /\ ret' = ret
       ELSE /\ ret' = [ret EXCEPT ![p] = [kind |-> "raise"]]
            /\ pc' = [pc EXCEPT ![p] = "done"]
            /\ rows' = rows
    /\ UNCHANGED <<clock, csv_file, last_snapshot, store0, batches, stamps,
                   lastGood, ncalls>>

\* line 56
SetCache(p) ==
    /\ pc[p] = "cache"
    /\ last_snapshot' = rows[p]
    /\ pc' = [pc EXCEPT ![p] = "exists"]
    /\ UNCHANGED <<clock, csv_file, data, rows, now, ret, store0, batches,
                   stamps, lastGood, ncalls>>

\* line 59
CheckExists(p) ==
    /\ pc[p] = "exists"
    /\ pc' = [pc EXCEPT ![p] = IF csv_file.exists THEN "append" ELSE "create"]
    /\ UNCHANGED <<clock, csv_file, last_snapshot, data, rows, now, ret, store0,
                   batches, stamps, lastGood, ncalls>>

\* line 60, first half: to_csv opens the file in mode 'w'
Create(p) ==
    /\ pc[p] = "create"
    /\ csv_file' = OpenW(csv_file)
    /\ pc' = [pc EXCEPT ![p] = "write"]
    /\ UNCHANGED <<clock, last_snapshot, data, rows, now, ret, store0, batches,
                   stamps, lastGood, ncalls>>

Returned(p) ==
    [ret EXCEPT ![p] = [kind |-> "capture", fallback |-> FALSE, value |-> rows[p]]]

\* line 60, second half, and line 64: header and rows go out, the call returns
Write(p) ==
    /\ pc[p] = "write"
    /\ csv_file' = WriteW(csv_file, ToCsv(rows[p], TRUE))
    /\ ret' = Returned(p)
    /\ batches' = Append(batches, rows[p])
    /\ stamps' = Append(stamps, now[p])
    /\ lastGood' = rows[p]
    /\ pc' = [pc EXCEPT ![p] = "done"]
    /\ UNCHANGED <<clock, last_snapshot, data, rows, now, store0, ncalls>>

\* lines 62 and 64: rows appended without a header, the call returns
AppendCsv(p) ==
    /\ pc[p] = "append"
    /\ csv_file' = WriteA(csv_file, ToCsv(rows[p], FALSE))
    /\ ret' = Returned(p)
    /\ batches' = Append(batches, rows[p])
    /\ stamps' = Append(stamps, now[p])
    /\ lastGood' = rows[p]
    /\ pc' = [pc EXCEPT ![p] = "done"]
    /\ UNCHANGED <<clock, last_snapshot, data, rows, now, store0, ncalls>>

\* a thread that keeps its result and never takes another call
Finish_Held(p) ==
    /\ pc[p] = "done"
    /\ ret[p] # NoRet
    /\ ret' = [ret EXCEPT ![p] = NoRet]
    /\ UNCHANGED <<clock, csv_file, last_snapshot, pc, data, rows, now, store0,
                   batches, stamps, lastGood, ncalls>>

\* the job ends, or Flask sends the response: the thread is free again
Finish(p) ==
    /\ pc[p] = "done"
    /\ pc' = [pc EXCEPT ![p] = "idle"]
    /\ ret' = [ret EXCEPT ![p] = NoRet]
    /\ rows' = [rows EXCEPT ![p] = <<>>]
    /\ now' = [now EXCEPT ![p] = 0]
    /\ UNCHANGED <<clock, csv_file, last_snapshot, data, store0, batches, stamps,
                   lastGood, ncalls>>

\* a second passes on the wall clock
Tick ==
    /\ clock < MaxClock
    /\ clock' = clock + 1
    /\ UNCHANGED <<csv_file, last_snapshot, pc, data, rows, now, ret, store0,
                   batches, stamps, lastGood, ncalls>>

\* ------------------------------------------------------------ read_csv

RECURSIVE SkipBlank(_)
SkipBlank(lines) ==
    IF lines = <<>> THEN <<>>
    ELSE IF lines[1].kind = "blank" THEN SkipBlank(Tail(lines))
    ELSE lines

\* pd.read_csv(CSV_FILE): blank lines are skipped and the first line left is
\* taken as the column names, whatever it holds.  empty: nothing to parse
\* (EmptyDataError).  named: the columns are time, name, symbol, ...
ReadCsv(f) ==
    LET body == SkipBlank(f.lines)
    IN  IF body = <<>>
        THEN [empty |-> TRUE, named |-> FALSE, rows |-> <<>>]
        ELSE [empty |-> FALSE,
              named |-> body[1].kind = "header",
              rows |-> RowsOfLines(Tail(body))]

\* ------------------------------------------------------------ chart

\* the trailing window of rolling(10)
WINDOW == 10

\* line 98: the rows of the symbol, compared upper-cased on both sides
RECURSIVE MatchSymbol(_, _)
MatchSymbol(rs, symbol) ==
    IF rs = <<>> THEN <<>>
    ELSE (IF Upper(rs[1].symbol) = Upper(symbol) THEN <<rs[1]>> ELSE <<>>)
         \o MatchSymbol(Tail(rs), symbol)

RECURSIVE InsertByTime(_, _)
InsertByTime(sorted, r) ==
    IF sorted = <<>> THEN <<r>>
    ELSE IF ParseTime(r.time) < ParseTime(sorted[1].time) THEN <<r>> \o sorted
    ELSE <<sorted[1]>> \o InsertByTime(Tail(sorted), r)

\* line 103: sort_values("time") on the parsed times; rows with equal times
\* keep their file order
RECURSIVE SortByTime(_)
SortByTime(rs) ==
    IF rs = <<>> THEN <<>>
    ELSE InsertByTime(SortByTime(SubSeq(rs, 1, Len(rs) - 1)), rs[Len(rs)])

NaN == [kind |-> "nan", num |-> 0, den |-> 1]
Inf == [kind |-> "inf", num |-> 0, den |-> 1]
Ratio(n, d) == [kind |-> "num", num |-> n, den |-> d]

\* line 104: pct_change: price[i]/price[i-1] - 1, nothing for the first row
PctChange(rs) ==
    [i \in 1..Len(rs) |->
        IF i = 1 THEN NaN
        ELSE IF rs[i - 1].price = 0
             THEN (IF rs[i].price = 0 THEN NaN ELSE Inf)
             ELSE Ratio(rs[i].price - rs[i - 1].price, rs[i - 1].price)]

\* a window that asks for one observation fewer
RollingVol_OneShort(returns, i) ==
    LET lo == IF i - WINDOW + 1 < 1 THEN 1 ELSE i - WINDOW + 1
        window == SubSeq(returns, lo, i)
        observed == Cardinality({k \in 1..Len(window) : window[k].kind = "num"})
    IN  IF observed >= WINDOW - 1
        THEN [defined |-> TRUE, window |-> window]
        ELSE [defined |-> FALSE, window |-> <<>>]

\* line 105: rolling(10).std() * 252**0.5 at position i.  The window is the
\* WINDOW entries ending at i; NaN and infinite entries are no observations;
\* with fewer than WINDOW observations the value is NaN.  A value is kept as
\* the window of returns it is the deviation of.
RollingVol(returns, i) ==
    LET lo == IF i - WINDOW + 1 < 1 THEN 1 ELSE i - WINDOW + 1
        window == SubSeq(returns, lo, i)
        observed == Cardinality({k \in 1..Len(window) : window[k].kind = "num"})
    IN  IF observed >= WINDOW
        THEN [defined |-> TRUE, window |-> window]
        ELSE [defined |-> FALSE, window |-> <<>>]

\* lines 103-108: the plotted series, one (time, rolling_vol) pair per row
VolSeries(rs) ==
    LET df == SortByTime(rs)
        returns == PctChange(df)
    IN  [i \in 1..Len(df) |-> [time |-> df[i].time, vol |-> RollingVol(returns, i)]]

Response(status, text) ==
    [status |-> status, text |-> text, series |-> <<>>, table |-> <<>>]

\* lines 93-119
ChartResponse(f, symbol) ==
    IF ~f.exists THEN Response(404, "No data yet")
    ELSE LET csv == ReadCsv(f)
         IN  IF csv.empty \/ ~csv.named
             THEN Response(500, "raised")
             ELSE LET df == MatchSymbol(csv.rows, symbol)
                  IN  IF df = <<>>
                      THEN Response(404, "No data for this symbol")
                      ELSE [Response(200, "image/png") EXCEPT !.series = VolSeries(df)]

\* ------------------------------------------------------------ pptx

\* line 159: df["time"].max(): the greatest time string
RECURSIVE MaxTime(_)
MaxTime(rs) ==
    IF Len(rs) = 1 THEN rs[1].time
    ELSE LET m == MaxTime(Tail(rs))
         IN  IF StrLess(m, rs[1].time) THEN rs[1].time ELSE m

Project(r) ==
    [name |-> r.name, symbol |-> r.symbol, price |-> r.price,
     change |-> r.change, volume |-> r.volume]

\* line 160: df[df["time"] == latest_time][[...]]
RECURSIVE RowsAt(_, _)
RowsAt(rs, latest_time) ==
    IF rs = <<>> THEN <<>>
    ELSE (IF rs[1].time = latest_time THEN <<Project(rs[1])>> ELSE <<>>)
         \o RowsAt(Tail(rs), latest_time)

\* lines 159-160; the maximum of an empty column is NaN, which no row equals
LatestRows(rs) == IF rs = <<>> THEN <<>> ELSE RowsAt(rs, MaxTime(rs))

\* lines 154-185
PptResponse(f) ==
    IF ~f.exists THEN Response(404, "No data yet")
    ELSE LET csv == ReadCsv(f)
         IN  IF csv.empty \/ ~csv.named
             THEN Response(500, "raised")
             ELSE [Response(200, "crypto_report.pptx") EXCEPT
                       !.table = LatestRows(csv.rows)]

\* the symbols clients ask charts for
ReqSymbols == {sym_btc, sym_BTC, sym_Btc, sym_eth, sym_xrp}

\* /chart/<symbol>, served by the request thread
Chart(symbol) ==
    /\ pc["web"] = "idle"
    /\ ret' = [ret EXCEPT !["web"] =
            [kind |-> "chart", symbol |-> symbol, seen |-> csv_file,
             resp |-> ChartResponse(csv_file, symbol)]]
    /\ pc' = [pc EXCEPT !["web"] = "done"]
    /\ UNCHANGED <<clock, csv_file, last_snapshot, data, rows, now, store0,
                   batches, stamps, lastGood, ncalls>>

\* an export that empties the cache
Pptx_Clearing ==
    /\ pc["web"] = "idle"
    /\ ret' = [ret EXCEPT !["web"] =
            [kind |-> "pptx", seen |-> csv_file, resp |-> PptResponse(csv_file)]]
    /\ pc' = [pc EXCEPT !["web"] = "done"]
    /\ last_snapshot' = <<>>
    /\ UNCHANGED <<clock, csv_file, data, rows, now, store0, batches, stamps,
                   lastGood, ncalls>>

\* /pptx, served by the request thread
Pptx ==
    /\ pc["web"] = "idle"
    /\ ret' = [ret EXCEPT !["web"] =
            [kind |-> "pptx", seen |-> csv_file, resp |-> PptResponse(csv_file)]]
    /\ pc' = [pc EXCEPT !["web"] = "done"]
    /\ UNCHANGED <<clock, csv_file, last_snapshot, data, rows, now, store0,
                   batches, stamps, lastGood, ncalls>>

\* ------------------------------------------------------------ btc_history

\* Instants of the market chart count half days where upstream counts
\* milliseconds; prices count thousandths.
TicksPerDay == 2

\* [timestamp, price] pairs: two instants of one day, one of the next
Points == {<<0, 42567>>, <<1, 1004>>, <<2, 42567>>}

PointLists == SeqsUpTo(Points, MaxPoints)

\* What the request at lines 130-133 can produce: an exception inside the try
\* block, a JSON object with its "prices" array, or JSON of another shape.
FeedUpstream ==
    {[outcome |-> e, shape |-> "none", prices |-> <<>>] : e \in UpstreamErrors}
    \cup {[outcome |-> "json", shape |-> "other", prices |-> <<>>]}
    \cup {[outcome |-> "json", shape |-> "object", prices |-> l] : l \in PointLists}

\* line 141: pd.to_datetime(p[0], unit="ms").strftime("%Y-%m-%d")
DateOf(ts) == Strftime(ts \div TicksPerDay)

\* line 142: round(p[1], 2), thousandths to hundredths, a tie to the even one
Round2(m) ==
    LET q == m \div 10
        r == m % 10
    IN  IF r < 5 THEN q
        ELSE IF r > 5 THEN q + 1
        ELSE IF q % 2 = 0 THEN q ELSE q + 1

\* a list that keeps one entry per date
RECURSIVE Cleaned_OnePerDate(_)
Cleaned_OnePerDate(prices) ==
    IF prices = <<>> THEN <<>>
    ELSE LET front == Cleaned_OnePerDate(SubSeq(prices, 1, Len(prices) - 1))
             p == prices[Len(prices)]
         IN  IF \E k \in 1..Len(front) : front[k].date = DateOf(p[1])
             THEN front
             ELSE Append(front, [date |-> DateOf(p[1]), price |-> Round2(p[2])])

\* lines 139-145: one {date, price} per price point, in upstream order
Cleaned(prices) ==
    [i \in 1..Len(prices) |->
        [date |-> DateOf(prices[i][1]), price |-> Round2(prices[i][2])]]

\* lines 126-147
HistoryResponse(u) ==
    IF u.outcome # "json" THEN Response(200, "[]")
    ELSE IF u.shape # "object" THEN Response(500, "raised")
    ELSE [Response(200, "json") EXCEPT !.series = Cleaned(u.prices)]

\* /btc_history, served by the request thread
History ==
    /\ pc["web"] = "idle"
    /\ \E u \in FeedUpstream :
        ret' = [ret EXCEPT !["web"] =
            [kind |-> "history", upstream |-> u, resp |-> HistoryResponse(u)]]
    /\ pc' = [pc EXCEPT !["web"] = "done"]
    /\ UNCHANGED <<clock, csv_file, last_snapshot, data, rows, now, store0,
                   batches, stamps, lastGood, ncalls>>

Next ==
    \/ Tick
    \/ \E p \in Procs :
        \/ Fetch(p)
        \/ Build(p)
        \/ SetCache(p)
        \/ CheckExists(p)
        \/ Create(p)
        \/ Write(p)
        \/ AppendCsv(p)
        \/ Finish(p)
    \/ \E symbol \in ReqSymbols : Chart(symbol)
    \/ Pptx
    \/ History

\* the scheduler's jobs and the requests, in any interleaving
Spec == Init /\ [][Next]_vars

\* ------------------------------------- capture calls one after another

Quiet == \A q \in Procs : pc[q] = "idle"

SeqFetch(p) == Quiet /\ Fetch(p)

SeqChart(symbol) == Quiet /\ Chart(symbol)

SeqPptx == Quiet /\ Pptx

SeqHistory == Quiet /\ History

SeqNext ==
    \/ Tick
    \/ \E p \in Procs :
        \/ SeqFetch(p)
        \/ Build(p)
        \/ SetCache(p)
        \/ CheckExists(p)
        \/ Create(p)
        \/ Write(p)
        \/ AppendCsv(p)
        \/ Finish(p)
    \/ \E symbol \in ReqSymbols : SeqChart(symbol)
    \/ SeqPptx
    \/ SeqHistory

\* no job or request starts before the one before it has returned
SeqSpec == Init /\ [][SeqNext]_vars

\* ---------------------------------------------------------------- recovery

\* Upstream fails for some captures and then stays healthy: any of the first
\* captures may fail, the last one the model allows gets an array of assets.
LiveFetch(p) ==
    /\ Fetch(p)
    /\ ncalls + 1 >= MaxCaptures => pc'[p] = "build" /\ data'[p].shape = "list"

\* what a thread does once fetch_crypto_data was called, up to its return
Run(p) ==
    \/ Build(p)
    \/ SetCache(p)
    \/ CheckExists(p)
    \/ Create(p)
    \/ Write(p)
    \/ AppendCsv(p)
    \/ Finish(p)

\* the captures of both threads within one second of the wall clock
LiveNext ==
    \/ \E p \in Procs : LiveFetch(p)
    \/ \E p \in Procs : Run(p)

\* The interval trigger of lines 70-72 fires the job again and again, and a
\* thread that runs fetch_crypto_data runs it to its end; a /data request may
\* never come.
LiveSpec ==
    /\ Init
    /\ [][LiveNext]_vars
    /\ WF_vars(LiveFetch("timer"))
    /\ \A p \in Procs : WF_vars(Run(p))


\* ------------------------------------------- the views over given stores

\* A store of n rows written by n captures of one asset, one second apart:
\* row `zero` (if any) has no price upstream (0.0), row `other` (if any) is
\* another asset, and rows `swap` and swap + 1 (if any) were appended by
\* overlapping captures, later sample first.
StoreRow(i, zero, other) ==
    MakeRow(Coin(IF i = other THEN "Ethereum" ELSE "Bitcoin",
                 IF i = other THEN sym_eth ELSE sym_btc,
                 IF i = zero THEN <<>> ELSE <<1 + (i % 2)>>,
                 <<>>, <<5>>),
            Strftime(ClockStart + i - 1))

StoreOf(n, zero, other, swap) ==
    [i \in 1..n |->
        StoreRow(IF i = swap THEN i + 1 ELSE IF i = swap + 1 THEN i - 1 ELSE i,
                 zero, other)]

StoresOfLen(n) ==
    {StoreOf(n, zero, other, swap) :
        zero \in 0..n,
        other \in {0} \cup ({3} \cap 1..n),
        swap \in {0} \cup ({2, 10} \cap 1..(n - 1))}

GivenStores == UNION {StoresOfLen(n) : n \in 0..MaxRows}

\* the files fetch_crypto_data leaves: none, one that began with a non-empty
\* batch (header first), one that began with an empty batch (blank line first)
GivenFiles ==
    {NoFile}
    \cup {FileOf(<<HeaderLine>> \o RowLines(rs)) : rs \in GivenStores \ {<<>>}}
    \cup {FileOf(<<BlankLine>> \o RowLines(rs)) : rs \in {r \in GivenStores : Len(r) <= 2}}

ViewInit ==
    /\ clock = ClockStart
    /\ csv_file \in GivenFiles
    /\ last_snapshot = <<>>
    /\ pc = [p \in Procs |-> "idle"]
    /\ data = [p \in Procs |-> NoData]
    /\ rows = [p \in Procs |-> <<>>]
    /\ now = [p \in Procs |-> 0]
    /\ ret = [p \in Procs |-> NoRet]
    /\ store0 = StoreRows(csv_file)
    /\ batches = <<>>
    /\ stamps = <<>>
    /\ lastGood = <<>>
    /\ ncalls = 0

ViewNext ==
    \/ \E symbol \in ReqSymbols : Chart(symbol)
    \/ Pptx
    \/ Finish("web")

\* chart and export requests against a store that no capture is writing
ViewSpec == ViewInit /\ [][ViewNext]_vars

\* ------------------------------------------------------------ the claims

RECURSIVE Flatten(_)
Flatten(bs) == IF bs = <<>> THEN <<>> ELSE bs[1] \o Flatten(Tail(bs))

Range(q) == {q[i] : i \in 1..Len(q)}

\* C1 (P1, append-only): with capture calls made one after another, the file
\* holds the rows it held at start followed by every batch written since, in
\* write order and unchanged; so after N successful fetches of batch size B
\* its row count is the prior count plus N*B.
C1_AppendOnly ==
    /\ StoreRows(csv_file) = store0 \o Flatten(batches)
    /\ \A B \in 0..MaxBatch :
        (\A i \in 1..Len(batches) : Len(batches[i]) = B)
            => Len(StoreRows(csv_file)) = Len(store0) + Len(batches) * B

\* C1 witness: a prior row and two batches of two rows each are all in the file
C1_Witness ==
    /\ Quiet
    /\ store0 # <<>>
    /\ Len(batches) = 2
    /\ \A i \in 1..Len(batches) : Len(batches[i]) = 2
    /\ Len(StoreRows(csv_file)) = 5

\* C2 (P2, fallback on failure): with capture calls made one after another, a
\* call whose upstream request fails returns the batch the last successful
\* call returned (the empty sequence if none succeeded) and leaves the cache
\* and the file as they were, the file not created if it did not exist.
C2_Fallback ==
    [][\A p \in Procs :
        (pc[p] = "idle" /\ pc'[p] = "done" /\ ret'[p].kind = "capture")
            => /\ ret'[p].value = lastGood
               /\ (batches = <<>> => ret'[p].value = <<>>)
               /\ last_snapshot' = last_snapshot
               /\ csv_file' = csv_file]_vars

\* C2 witness: a failed request answered with the earlier, non-empty batch
C2_Witness ==
    \E p \in Procs :
        /\ pc[p] = "done"
        /\ ret[p].kind = "capture"
        /\ ret[p].fallback
        /\ ret[p].value # <<>>
        /\ ret[p].value = lastGood

\* the rows of batch i never carry a captured_at that rows of batch j carry
NoSharedTime(i, j) ==
    \A a \in Range(batches[i]), b \in Range(batches[j]) : a.time # b.time

\* C8 as stated: two captures in succession carry distinct captured_at values
C8_DistinctTimes ==
    \A i, j \in 1..Len(batches) : i < j => NoSharedTime(i, j)

\* C8 amended: two captures in succession each append their batch (nothing is
\* deduplicated); their captured_at values differ exactly when the clock read
\* a different second at the two samples, and are equal when it read the same
\* one; with a clock that does not go back the later batch never carries the
\* earlier captured_at.
C8_NoDedupOrdered ==
    /\ Len(StoreRows(csv_file)) = Len(store0) + Len(Flatten(batches))
    /\ \A i, j \in 1..Len(batches) : i < j =>
        \A a \in Range(batches[i]), b \in Range(batches[j]) :
            /\ StrLeq(a.time, b.time)
            /\ a.time = b.time <=> stamps[i] = stamps[j]

\* C8 witness: two equal batches stamped within the same second are both in
\* the file
C8_Witness ==
    /\ Quiet
    /\ Len(batches) = 2
    /\ batches[1] # <<>>
    /\ batches[1] = batches[2]
    /\ stamps[1] = stamps[2]
    /\ Len(StoreRows(csv_file)) = Len(store0) + 2 * Len(batches[1])

Count(r, q) == Cardinality({i \in 1..Len(q) : q[i] = r})

\* C3: after captures of the timer and of /data that both succeeded, in any
\* interleaving, the file holds every row it held before and every row of
\* every batch written.
C3_ConcurrentAppendSafe ==
    (\A p \in Procs : pc[p] \in {"idle", "done"})
        => LET expected == store0 \o Flatten(batches)
               stored == StoreRows(csv_file)
           IN  /\ SubSeq(stored, 1, Len(store0)) = store0
               /\ \A r \in Range(expected) : Count(r, stored) >= Count(r, expected)

\* the chart response the request thread holds, if it holds one
ChartDone == pc["web"] = "done" /\ ret["web"].kind = "chart"
PptxDone == pc["web"] = "done" /\ ret["web"].kind = "pptx"

\* the rows of the file a response was computed from that belong to `symbol`,
\* letter case ignored
SameLetter(c, d) ==
    \/ c = d
    \/ c - d = 32 /\ IsLower(c)
    \/ d - c = 32 /\ IsLower(d)

SameIgnoringCase(a, b) ==
    Len(a) = Len(b) /\ \A i \in 1..Len(a) : SameLetter(a[i], b[i])

RowsOfSymbol(f, symbol) ==
    {i \in 1..Len(StoreRows(f)) : SameIgnoringCase(StoreRows(f)[i].symbol, symbol)}

\* the price of the row of `symbol` that is k-th in time order
PriceAt(f, symbol, k) ==
    LET rs == StoreRows(f)
        idx == RowsOfSymbol(f, symbol)
        rank(i) == 1 + Cardinality({j \in idx : ParseTime(rs[j].time) < ParseTime(rs[i].time)})
    IN  rs[CHOOSE i \in idx : rank(i) = k].price

\* the returns at positions k-9..k of the series all exist
TenReturnsEndAt(f, symbol, k) ==
    /\ k - WINDOW >= 1
    /\ \A m \in (k - WINDOW)..(k - 1) : PriceAt(f, symbol, m) # 0

Ascending(series) ==
    \A i, j \in 1..Len(series) :
        i < j => ParseTime(series[i].time) <= ParseTime(series[j].time)

\* C4 as stated: the series has one entry per row of the symbol, in time
\* order; the first 9 entries are undefined and, all returns existing, the
\* entry at position 9 (0-indexed) and every later one is defined.
C4_NineUndefined ==
    ChartDone /\ ret["web"].resp.status = 200 =>
        LET r == ret["web"]
            series == r.resp.series
            L == Cardinality(RowsOfSymbol(r.seen, r.symbol))
        IN  /\ Len(series) = L
            /\ Ascending(series)
            /\ \A i \in 1..L : i <= WINDOW - 1 => ~series[i].vol.defined
            /\ (\A m \in 1..L : PriceAt(r.seen, r.symbol, m) # 0)
                   => \A i \in 1..L : i >= WINDOW => series[i].vol.defined

\* C4 amended: whenever a chart request yields a series for a symbol with L
\* rows, the series has L entries in ascending time order; the first 10
\* entries (positions 0..9) are undefined, and the entry at position 10 and
\* every later one is defined whenever the 10 returns ending there exist.
C4_TenUndefined ==
    ChartDone /\ ret["web"].resp.status = 200 =>
        LET r == ret["web"]
            series == r.resp.series
            L == Cardinality(RowsOfSymbol(r.seen, r.symbol))
        IN  /\ Len(series) = L
            /\ Ascending(series)
            /\ \A i \in 1..L : i <= WINDOW => ~series[i].vol.defined
            /\ \A i \in 1..L :
                TenReturnsEndAt(r.seen, r.symbol, i) => series[i].vol.defined

\* C4 witness: 12 rows give 10 undefined entries followed by 2 defined ones
C4_Witness ==
    /\ ChartDone
    /\ ret["web"].resp.status = 200
    /\ Len(ret["web"].resp.series) = 12
    /\ \A i \in 1..12 : ret["web"].resp.series[i].vol.defined <=> i > 10

\* the rows of a file that carry its greatest captured_at, projected
IsLatest(f, i) ==
    \A j \in 1..Len(StoreRows(f)) : StrLeq(StoreRows(f)[j].time, StoreRows(f)[i].time)

\* C5 (P3): for a store that holds rows, the export's table is exactly the
\* rows whose captured_at is the maximum, projected to name, symbol, price,
\* change and volume.
C5_LatestSnapshot ==
    PptxDone /\ StoreRows(ret["web"].seen) # <<>> =>
        LET f == ret["web"].seen
            table == ret["web"].resp.table
            latest == {i \in 1..Len(StoreRows(f)) : IsLatest(f, i)}
        IN  /\ ret["web"].resp.status = 200
            /\ Len(table) = Cardinality(latest)
            /\ \A i \in latest :
                Count(Project(StoreRows(f)[i]), table)
                    = Cardinality({j \in latest :
                        Project(StoreRows(f)[j]) = Project(StoreRows(f)[i])})

\* C6: a capture never raises, whatever upstream answers and whatever the
\* store holds: it returns the fresh batch or the cache.
C6_NeverRaises ==
    \A p \in Procs : pc[p] = "done" => ret[p].kind # "raise"

\* C7 (Scenario A): a chart or export request served while the store holds no
\* rows is answered 'not found'.
C7_NoDataYet ==
    (ChartDone \/ PptxDone) /\ StoreRows(ret["web"].seen) = <<>>
        => ret["web"].resp.status = 404

\* C9: once captures have run, an existing file starts with the header, holds
\* it exactly once, and every other line is a data row.
C9_HeaderOnce ==
    Quiet /\ csv_file.exists =>
        /\ csv_file.lines # <<>>
        /\ csv_file.lines[1] = HeaderLine
        /\ \A i \in 2..Len(csv_file.lines) : csv_file.lines[i].kind = "row"

\* C10: for a store that exists, a chart request is answered 'not found'
\* exactly when no stored row has the symbol, letter case ignored; otherwise
\* it yields a series of exactly the rows that have it, and requests that
\* differ only in letter case get the same answer.
C10_SymbolSelection ==
    ChartDone /\ ret["web"].seen.exists =>
        LET r == ret["web"]
            matching == RowsOfSymbol(r.seen, r.symbol)
        IN  /\ r.resp.status = 404 <=> matching = {}
            /\ matching # {} =>
                /\ r.resp.status = 200
                /\ Len(r.resp.series) = Cardinality(matching)
                /\ \A i \in matching :
                    \E k \in 1..Len(r.resp.series) :
                        r.resp.series[k].time = StoreRows(r.seen)[i].time
            /\ \A other \in ReqSymbols :
                SameIgnoringCase(other, r.symbol)
                    => ChartResponse(r.seen, other) = r.resp

HistoryStep == pc["web"] = "idle" /\ pc'["web"] = "done" /\ ret'["web"].kind = "history"

\* entry e is the point p with its instant cut to the day and its price
\* rounded to the nearest hundredth
EntryOfPoint(e, p) ==
    /\ Len(e.date) = 2
    /\ ParseTime(e.date) * TicksPerDay <= p[1]
    /\ p[1] < (ParseTime(e.date) + 1) * TicksPerDay
    /\ e.price * 10 - p[2] <= 5
    /\ p[2] - e.price * 10 <= 5

\* C11: a /btc_history request whose upstream request fails answers the empty
\* sequence and no error; one whose upstream request succeeds answers one
\* (date, price) entry per upstream price point, in upstream order, entries of
\* one date neither dropped nor merged; in both cases the history store and
\* the cache are left as they were and the answer does not depend on them.
C11_HistoryFeed ==
    [][HistoryStep =>
        LET u == ret'["web"].upstream
            resp == ret'["web"].resp
        IN  /\ csv_file' = csv_file
            /\ last_snapshot' = last_snapshot
            /\ u.outcome # "json" => resp.status = 200 /\ resp.series = <<>>
            /\ (u.outcome = "json" /\ u.shape = "object") =>
                /\ resp.status = 200
                /\ Len(resp.series) = Len(u.prices)
                /\ \A i \in 1..Len(u.prices) :
                    EntryOfPoint(resp.series[i], u.prices[i])]_vars

\* C11 witness: two price points of one day answered as two entries of one
\* date, with a store on disk
C11_Witness ==
    /\ pc["web"] = "done"
    /\ ret["web"].kind = "history"
    /\ csv_file.exists
    /\ Len(ret["web"].upstream.prices) = 2
    /\ ret["web"].upstream.prices[1] # ret["web"].upstream.prices[2]
    /\ Len(ret["web"].resp.series) = 2
    /\ ret["web"].resp.series[1].date = ret["web"].resp.series[2].date

\* C12: in every reachable state, in any interleaving of the timer's captures
\* and those of /data, a row of the file has a time greater than or equal to
\* the time of every row before it in the file.
C12_TimesNonDecreasing ==
    LET stored == StoreRows(csv_file)
    IN  \A i, j \in 1..Len(stored) :
            i < j => StrLeq(stored[i].time, stored[j].time)

\* the rows, the cache and the file of a capture between line 44 and line 64
BuildStep(p) == pc[p] = "build" /\ pc'[p] = "cache"
CacheStep(p) == pc[p] = "cache" /\ pc'[p] = "exists"
StoreStep(p) == pc[p] \in {"write", "append"} /\ pc'[p] = "done"
HoldsBatch(p) == pc[p] \in {"cache", "exists", "create", "write", "append"}

\* C13: a capture whose request succeeded builds one row per asset object of
\* the response, in the order of the response, every row with the one time
\* sampled at line 44 and an upper-cased symbol; the rows it stores in the
\* cache, the rows it adds to the file and the rows it returns are those rows.
C13_BatchShape ==
    [][\A p \in Procs :
        /\ BuildStep(p) =>
            /\ Len(rows'[p]) = Len(data[p].items)
            /\ \A i \in 1..Len(rows'[p]) :
                /\ rows'[p][i].name = data[p].items[i].name
                /\ SameIgnoringCase(rows'[p][i].symbol, data[p].items[i].symbol)
                /\ \A k \in 1..Len(rows'[p][i].symbol) : ~IsLower(rows'[p][i].symbol[k])
                /\ rows'[p][i].time = Strftime(clock)
                /\ rows'[p][i].time = rows'[p][1].time
        /\ HoldsBatch(p) => rows'[p] = rows[p]
        /\ CacheStep(p) => last_snapshot' = rows[p]
        /\ StoreStep(p) =>
            /\ ret'[p] = [kind |-> "capture", fallback |-> FALSE, value |-> rows[p]]
            /\ StoreRows(csv_file') = StoreRows(csv_file) \o rows[p]
            /\ last_snapshot = rows[p]]_vars

\* C13 witness: a capture of two assets has returned its two rows, which are
\* the cache and the end of the file
C13_Witness ==
    \E p \in Procs :
        /\ pc[p] = "done"
        /\ ret[p].kind = "capture"
        /\ ~ret[p].fallback
        /\ Len(ret[p].value) = 2
        /\ ret[p].value[1].symbol = sym_BTC
        /\ ret[p].value[2].symbol # ret[p].value[1].symbol
        /\ last_snapshot = ret[p].value
        /\ Len(StoreRows(csv_file)) >= 2
        /\ SubSeq(StoreRows(csv_file), Len(StoreRows(csv_file)) - 1,
                  Len(StoreRows(csv_file))) = ret[p].value

\* a capture has ended without a batch: it returned the cache or it raised
Failed(p) ==
    /\ pc[p] = "done"
    /\ \/ ret[p].kind = "raise"
       \/ ret[p].kind = "capture" /\ ret[p].fallback

\* a capture has added a batch after n others: the cache is that batch and
\* the file holds its rows
Recovered(n) ==
    /\ Len(batches) > n
    /\ last_snapshot = batches[Len(batches)]
    /\ csv_file.exists
    /\ Range(batches[Len(batches)]) \subseteq Range(StoreRows(csv_file))

\* C14: with the interval trigger firing again and again, once a capture has
\* failed, a trigger is still to come and upstream becomes healthy for good,
\* a capture eventually succeeds: it
\* replaces the cache with its batch and adds the batch to the file. Nothing a
\* failed capture leaves behind prevents that.
C14_Recovery ==
    \A n \in 0..MaxCaptures :
        ((\E p \in Procs : Failed(p)) /\ ncalls < MaxCaptures /\ Len(batches) = n)
            ~> Recovered(n)

\* C14 witness: every capture but the last one failed, the last one has put
\* its batch of one row or more into the cache and the file
C14_Witness ==
    /\ ncalls = MaxCaptures
    /\ Len(batches) = 1
    /\ \A p \in Procs : pc[p] \in {"idle", "done"}
    /\ \E p \in Procs : pc[p] = "done" /\ ret[p].kind = "capture" /\ ~ret[p].fallback
    /\ batches[1] # <<>>
    /\ Recovered(0)

\* a request thread answers /chart/<symbol>, /pptx or /btc_history
ViewStep ==
    /\ pc["web"] = "idle"
    /\ pc'["web"] = "done"
    /\ ret'["web"].kind \in {"chart", "pptx", "history"}

\* lines 56, 60 and 62 of fetch_crypto_data
CaptureWrite(p) ==
    /\ pc[p] \in {"cache", "create", "write", "append"}
    /\ pc'[p] # pc[p]

\* C15: a /chart, /pptx or /btc_history request leaves the file and the cache
\* as they were, whatever it answers, and every step that changes the file or
\* the cache is a step of fetch_crypto_data.
C15_ReadOnlyViews ==
    [][/\ ViewStep => csv_file' = csv_file /\ last_snapshot' = last_snapshot
       /\ (csv_file' # csv_file \/ last_snapshot' # last_snapshot)
            => \E p \in Procs : CaptureWrite(p)]_vars

\* C15 witness: a view has answered while the file and the cache hold the rows
\* of a capture
C15_Witness ==
    /\ pc["web"] = "done"
    /\ ret["web"].kind \in {"chart", "pptx", "history"}
    /\ last_snapshot # <<>>
    /\ batches # <<>>
    /\ last_snapshot = batches[Len(batches)]
    /\ Range(last_snapshot) \subseteq Range(StoreRows(csv_file))

\* the rows at the end of the file, as many as the cache holds
LastRows(n) ==
    LET stored == StoreRows(csv_file)
    IN  IF n > Len(stored) THEN <<>>
        ELSE SubSeq(stored, Len(stored) - n + 1, Len(stored))

\* C16: in every reachable state in which no capture is in progress, in any
\* interleaving of the timer's captures and those of /data, either the cache
\* is empty and there is no file, or the cache is the batch added to the file
\* most recently, which is what the last rows of the file are.
C16_CacheMatchesStore ==
    (\A p \in Procs : pc[p] \in {"idle", "done"}) =>
        \/ last_snapshot = <<>> /\ ~csv_file.exists
        \/ /\ csv_file.exists
           /\ Len(last_snapshot) <= Len(StoreRows(csv_file))
           /\ last_snapshot = LastRows(Len(last_snapshot))
           /\ batches # <<>> => last_snapshot = batches[Len(batches)]
           /\ batches = <<>> => last_snapshot = store0

====
